---- MODULE Spec2Model ----
(***************************************************************************)
(* Token sale backend (server.js, models/Transaction.js).                  *)
(*                                                                         *)
(* The purchase handler POST /api/buy-tokens is modelled step by step: one *)
(* action per await of the handler, so that requests interleave exactly    *)
(* where the event loop can interleave them.  The chain gateway (ethers)   *)
(* and the store (mongoose) are the environment: a chain write or a store  *)
(* write either takes effect or throws.  The store enforces the unique     *)
(* index that the schema declares on txHash.                               *)
(*                                                                         *)
(* Numbers.  Stablecoin quantities on chain are integers in the smallest   *)
(* unit (10^-6).  Token quantities reach 10^36 and do not fit a machine    *)
(* integer, so a decimal number is kept as mantissa and decimal exponent,  *)
(* [m, e] standing for m * 10^e, normalised so that m has no trailing      *)
(* zero.  The JavaScript product of line 76 is a binary64 product; for the *)
(* request amounts enumerated here (0.5, 1, 1000) it is exact, so the      *)
(* exact decimal product is what the code computes.                        *)
(***************************************************************************)
EXTENDS Integers, Sequences, FiniteSets, TLC

\* ------------------------------------------------------------------ bounds
MaxReq == 2
MaxTime == 1

\* ------------------------------------------------------- program constants
TOKEN_PRICE_USDT == 1
TOKEN_DECIMALS == 18
USDT_DECIMALS == 6
ExponentialFrom == 21
TopBuyersLimit == 10
DefaultPage == 1
DefaultLimit == 10

ADMIN_ADDRESS == "0xAdmin"
Buyers == {"0xA", "0xB"}
Sentinel == "pending"

Reqs == 1..MaxReq

\* ------------------------------------------------------- decimal numbers
RECURSIVE Pow10(_)
Pow10(k) == IF k <= 0 THEN 1 ELSE 10 * Pow10(k - 1)

RECURSIVE Digits(_)
Digits(n) == IF n < 10 THEN 1 ELSE 1 + Digits(n \div 10)

RECURSIVE Norm(_)
Norm(d) ==
    IF d.m # 0 /\ d.m % 10 = 0
    THEN Norm([m |-> d.m \div 10, e |-> d.e + 1])
    ELSE IF d.m = 0 THEN [m |-> 0, e |-> 0] ELSE d

Dec(m, e) == Norm([m |-> m, e |-> e])

\* The JavaScript value NaN, the result of arithmetic on a non-numeric string.
NaN == [m |-> -1, e |-> 0]

\* Request body values of usdtAmount: absent (undefined, and the falsy 0 and
\* ""), a non-numeric string, or a JSON number.
Absent == [kind |-> "absent", m |-> 0, e |-> 0]
Text == [kind |-> "text", m |-> 0, e |-> 0]
Num(m, e) == [kind |-> "num", m |-> Dec(m, e).m, e |-> Dec(m, e).e]

UsdtAmounts == {Absent, Text, Num(5, -1), Num(1, 0), Num(1, 3)}
BuyerAddresses == Buyers \cup {""}

\* Number(usdtAmount): the numeric coercion of the * operator.
ToNumber(v) == IF v.kind = "num" THEN [m |-> v.m, e |-> v.e] ELSE NaN

\* calculateTokenAmount: (usdtAmount * 10 ** TOKEN_DECIMALS) / TOKEN_PRICE_USDT
calculateTokenAmount(usdtAmount) ==
    LET n == ToNumber(usdtAmount)
    IN  IF n = NaN THEN NaN
        ELSE LET p == Dec(n.m, n.e + TOKEN_DECIMALS)
             IN  Dec(p.m \div TOKEN_PRICE_USDT, p.e)

\* Number.prototype.toString: decimal digits, but exponential notation from
\* 10^21 on and below 10^-6; "NaN" for NaN.  A string is kept as its form
\* and, for the decimal form, the number it spells.
NumberToString(n) ==
    IF n = NaN THEN [form |-> "NaN", m |-> 0, e |-> 0]
    ELSE IF n.m # 0 /\ Digits(n.m) + n.e > ExponentialFrom
              THEN [form |-> "exponential", m |-> n.m, e |-> n.e]
    ELSE IF n.m # 0 /\ Digits(n.m) + n.e <= -USDT_DECIMALS
              THEN [form |-> "exponential", m |-> n.m, e |-> n.e]
    ELSE [form |-> "decimal", m |-> n.m, e |-> n.e]

\* usdtAmount.toString(): a number by NumberToString, a string is itself.
InputToString(v) ==
    IF v.kind = "num" THEN NumberToString([m |-> v.m, e |-> v.e])
    ELSE [form |-> "text", m |-> 0, e |-> 0]

\* ethers.parseUnits(value, decimals): the string must be plain decimal
\* digits with at most `decimals` fractional digits, else it throws; the
\* result is the integer value * 10^decimals.
parseUnits(s, decimals) ==
    IF s.form # "decimal" THEN [ok |-> FALSE, v |-> NaN]
    ELSE IF s.e < -decimals THEN [ok |-> FALSE, v |-> NaN]
    ELSE [ok |-> TRUE, v |-> Dec(s.m, s.e + decimals)]

\* The machine integer a (small) decimal integer stands for.
DecToInt(d) == d.m * Pow10(d.e)

\* $toDouble of a stored usdtAmount string, in units of 10^-6.
ToMicro(s) == s.m * Pow10(s.e + USDT_DECIMALS)

\* ----------------------------------------------------------------- state
VARIABLES
    usdtBalance,    \* stablecoin contract: balanceOf
    usdtAllowance,  \* stablecoin contract: allowance(owner, ADMIN_ADDRESS)
    mints,          \* token contract: the confirmed mint transactions
    txCount,        \* transactions the admin signer has had confirmed
    ledger,         \* the transactions collection, in insertion order
    req,            \* the buy-tokens requests, each at its await
    report          \* the last response of a reporting endpoint

vars == <<usdtBalance, usdtAllowance, mints, txCount, ledger, req, report>>

chain == <<usdtBalance, usdtAllowance, mints, txCount>>

TxHash(n) == "0x" \o ToString(n)

NoDoc == [idx |-> 0, status |-> "", txHash |-> ""]
NoRes == [status |-> 0, error |-> "", transactionHash |-> ""]

IdleReq ==
    [pc |-> "idle", usdtAmount |-> Absent, buyerAddress |-> "",
     tokenAmount |-> NaN, usdtAmountWithDecimals |-> 0,
     tokenAmountWithDecimals |-> NaN, pendingTx |-> NoDoc,
     mintTx |-> "", mintArg |-> NaN, error |-> "", res |-> NoRes,
     transferFromCalls |-> 0, mintCalls |-> 0, chainReads |-> 0, responses |-> 0,
     saveErrors |-> {},
     transferred |-> FALSE, balanceAtArrival |-> 0, allowanceAtArrival |-> 0]

\* The chain before the first request: one buyer holds 2000 stablecoin, the
\* other 0.5; each has approved 0.5 or 2 to the admin.
InitialBalance == [b \in Buyers \cup {ADMIN_ADDRESS} |->
                     IF b = "0xA" THEN 2000000000 ELSE IF b = "0xB" THEN 500000 ELSE 0]
InitialAllowances == {500000, 2000000}

NoReport == [op |-> "none"]

Init ==
    /\ usdtBalance = InitialBalance
    /\ usdtAllowance \in [Buyers -> InitialAllowances]
    /\ mints = {}
    /\ txCount = 0
    /\ ledger = <<>>
    /\ req = [r \in Reqs |-> IdleReq]
    /\ report = NoReport

\* ------------------------------------------------------ the response sent
\* The outer catch: the response chosen from error.code.
CatchResponse(code) ==
    IF code = "INSUFFICIENT_FUNDS"
        THEN [status |-> 400, error |-> "Insufficient funds for gas (admin wallet)",
              transactionHash |-> ""]
    ELSE IF code = "UNPREDICTABLE_GAS_LIMIT"
        THEN [status |-> 400, error |-> "Transaction would fail on chain",
              transactionHash |-> ""]
    ELSE IF code = "CALL_EXCEPTION"
        THEN [status |-> 400, error |-> "Blockchain call failed",
              transactionHash |-> ""]
    ELSE [status |-> 500, error |-> "Failed to process token purchase",
          transactionHash |-> ""]

Respond(r, response, code) ==
    req' = [req EXCEPT ![r].pc = "done", ![r].res = response, ![r].error = code,
                       ![r].responses = @ + 1]

\* --------------------------------------------------------------- the store
\* The unique index on txHash: a write is rejected when another document
\* already holds the value.
UniqueViolation(idx, txHash) ==
    \E i \in 1..Len(ledger) : i # idx /\ ledger[i].txHash = txHash

\* Date.now() at the construction of a document: no earlier than any
\* timestamp already stored.
ClockReadings ==
    LET last == IF Len(ledger) = 0 THEN 0 ELSE ledger[Len(ledger)].timestamp
    IN  last..MaxTime


\* ------------------------------------------------- POST /api/buy-tokens
Res(status, error) == [status |-> status, error |-> error, transactionHash |-> ""]

\* Receive with the balance read before the input check: a request that
\* lacks an input is rejected after one chain read.
Receive_ReadFirst(r, usdtAmount, buyerAddress) ==
    /\ req[r].pc = "idle"
    /\ r > 1 => req[r - 1].pc # "idle"
    /\ LET tokenAmount == calculateTokenAmount(usdtAmount)
           usdtUnits == parseUnits(InputToString(usdtAmount), USDT_DECIMALS)
           tokenUnits == parseUnits(NumberToString(tokenAmount), TOKEN_DECIMALS)
           arrived == [req[r] EXCEPT !.usdtAmount = usdtAmount,
                                     !.buyerAddress = buyerAddress]
       IN  IF usdtAmount.kind = "absent" \/ buyerAddress = ""
           THEN req' = [req EXCEPT ![r] =
                   [arrived EXCEPT !.pc = "done",
                                   !.chainReads = @ + 1,
                                   !.responses = @ + 1,
                                   !.res = Res(400, "Missing required parameters")]]
           ELSE IF ~usdtUnits.ok \/ ~tokenUnits.ok
           THEN req' = [req EXCEPT ![r] =
                   [arrived EXCEPT !.pc = "done",
                                   !.responses = @ + 1,
                                   !.tokenAmount = tokenAmount,
                                   !.error = "INVALID_ARGUMENT",
                                   !.res = CatchResponse("INVALID_ARGUMENT")]]
           ELSE req' = [req EXCEPT ![r] =
                   [arrived EXCEPT !.pc = "balanceOf",
                                   !.tokenAmount = tokenAmount,
                                   !.usdtAmountWithDecimals = DecToInt(usdtUnits.v),
                                   !.tokenAmountWithDecimals = tokenUnits.v]]
    /\ UNCHANGED <<chain, ledger, report>>

\* Lines 85-103: the body is read, the amounts are computed and converted.
\* No await: one step.  A throw of parseUnits goes to the outer catch.
Receive(r, usdtAmount, buyerAddress) ==
    /\ req[r].pc = "idle"
    /\ r > 1 => req[r - 1].pc # "idle"
    /\ LET tokenAmount == calculateTokenAmount(usdtAmount)
           usdtUnits == parseUnits(InputToString(usdtAmount), USDT_DECIMALS)
           tokenUnits == parseUnits(NumberToString(tokenAmount), TOKEN_DECIMALS)
           arrived == [req[r] EXCEPT
                         !.usdtAmount = usdtAmount,
                         !.buyerAddress = buyerAddress,
                         !.balanceAtArrival =
                             IF buyerAddress \in Buyers THEN usdtBalance[buyerAddress] ELSE 0,
                         !.allowanceAtArrival =
                             IF buyerAddress \in Buyers THEN usdtAllowance[buyerAddress] ELSE 0]
       IN  IF usdtAmount.kind = "absent" \/ buyerAddress = ""
           THEN req' = [req EXCEPT ![r] =
                   [arrived EXCEPT !.pc = "done",
                                   !.responses = @ + 1,
                                   !.res = Res(400, "Missing required parameters")]]
           ELSE IF ~usdtUnits.ok \/ ~tokenUnits.ok
           THEN req' = [req EXCEPT ![r] =
                   [arrived EXCEPT !.pc = "done",
                                   !.responses = @ + 1,
                                   !.tokenAmount = tokenAmount,
                                   !.error = "INVALID_ARGUMENT",
                                   !.res = CatchResponse("INVALID_ARGUMENT")]]
           ELSE req' = [req EXCEPT ![r] =
                   [arrived EXCEPT !.pc = "balanceOf",
                                   !.tokenAmount = tokenAmount,
                                   !.usdtAmountWithDecimals = DecToInt(usdtUnits.v),
                                   !.tokenAmountWithDecimals = tokenUnits.v]]
    /\ UNCHANGED <<chain, ledger, report>>

\* What a chain read can throw: the call reverts, the node cannot be
\* reached.
ReadErrors == {"CALL_EXCEPTION", "NETWORK_ERROR"}

\* A chain read that throws: the outer catch answers.
ReadThrows(r, code) ==
    req' = [req EXCEPT ![r].pc = "done", ![r].chainReads = @ + 1,
                       ![r].responses = @ + 1, ![r].error = code,
                       ![r].res = CatchResponse(code)]

\* CheckBalance without the return of line 110: the 400 response is sent
\* and the handler goes on to the allowance check.
CheckBalance_NoReturn(r) ==
    /\ req[r].pc = "balanceOf"
    /\ \/ LET buyerBalance == usdtBalance[req[r].buyerAddress]
          IN  IF buyerBalance < req[r].usdtAmountWithDecimals
              THEN req' = [req EXCEPT ![r].pc = "allowance", ![r].chainReads = @ + 1,
                                      ![r].responses = @ + 1,
                                      ![r].res = Res(400, "Insufficient USDT balance")]
              ELSE req' = [req EXCEPT ![r].pc = "allowance", ![r].chainReads = @ + 1]
       \/ \E code \in ReadErrors : ReadThrows(r, code)
    /\ UNCHANGED <<chain, ledger, report>>

\* Lines 106-115: await balanceOf, then the balance check.
CheckBalance(r) ==
    /\ req[r].pc = "balanceOf"
    /\ \/ LET buyerBalance == usdtBalance[req[r].buyerAddress]
          IN  IF buyerBalance < req[r].usdtAmountWithDecimals
              THEN req' = [req EXCEPT ![r].pc = "done", ![r].chainReads = @ + 1,
                                      ![r].responses = @ + 1,
                                      ![r].res = Res(400, "Insufficient USDT balance")]
              ELSE req' = [req EXCEPT ![r].pc = "allowance", ![r].chainReads = @ + 1]
       \/ \E code \in ReadErrors : ReadThrows(r, code)
    /\ UNCHANGED <<chain, ledger, report>>

\* Lines 118-126: await allowance, then the allowance check.
CheckAllowance(r) ==
    /\ req[r].pc = "allowance"
    /\ \/ LET allowance == usdtAllowance[req[r].buyerAddress]
          IN  IF allowance < req[r].usdtAmountWithDecimals
              THEN req' = [req EXCEPT ![r].pc = "done", ![r].chainReads = @ + 1,
                                      ![r].responses = @ + 1,
                                      ![r].res = Res(400, "Insufficient USDT allowance")]
              ELSE req' = [req EXCEPT ![r].pc = "insert", ![r].chainReads = @ + 1]
       \/ \E code \in ReadErrors : ReadThrows(r, code)
    /\ UNCHANGED <<chain, ledger, report>>

\* Lines 129-137: the document of the pending purchase.
NewTransaction(r, timestamp) ==
    [_id |-> Len(ledger) + 1,
     buyerAddress |-> req[r].buyerAddress,
     type |-> "BUY",
     amount |-> NumberToString(req[r].tokenAmount),
     status |-> "PENDING",
     txHash |-> Sentinel,
     timestamp |-> timestamp,
     tokenPrice |-> TOKEN_PRICE_USDT,
     usdtAmount |-> InputToString(req[r].usdtAmount)]

\* Line 138, await pendingTx.save(): the insert.  It throws when the unique
\* index rejects the txHash or when the store fails; the throw is outside
\* the inner try and goes to the outer catch.
\* InsertAccepted as an upsert on txHash: the document that holds the
\* sentinel is overwritten by the new one.
InsertAccepted_Upsert(r, timestamp) ==
    LET held == {i \in 1..Len(ledger) : ledger[i].txHash = Sentinel}
        idx == IF held = {} THEN Len(ledger) + 1 ELSE CHOOSE i \in held : TRUE
        doc == [NewTransaction(r, timestamp) EXCEPT !._id = idx]
    IN  /\ ledger' = IF held = {} THEN Append(ledger, doc)
                                  ELSE [ledger EXCEPT ![idx] = doc]
        /\ req' = [req EXCEPT ![r].pc = "transferFrom",
                              ![r].pendingTx = [idx |-> idx,
                                                status |-> "PENDING",
                                                txHash |-> Sentinel]]

InsertAccepted(r, timestamp) ==
    /\ ~UniqueViolation(0, Sentinel)
    /\ ledger' = Append(ledger, NewTransaction(r, timestamp))
    /\ req' = [req EXCEPT ![r].pc = "transferFrom",
                          ![r].pendingTx = [idx |-> Len(ledger) + 1,
                                            status |-> "PENDING",
                                            txHash |-> Sentinel]]

InsertRejected(r) ==
    /\ UniqueViolation(0, Sentinel)
    /\ Respond(r, CatchResponse("E11000"), "E11000")
    /\ UNCHANGED ledger

InsertFailed(r) ==
    /\ Respond(r, CatchResponse("STORE_ERROR"), "STORE_ERROR")
    /\ UNCHANGED ledger

InsertPending(r) ==
    /\ req[r].pc = "insert"
    /\ \/ \E timestamp \in ClockReadings : InsertAccepted(r, timestamp)
       \/ InsertRejected(r)
       \/ InsertFailed(r)
    /\ UNCHANGED <<chain, report>>

\* What a chain write can throw: the signer cannot pay the gas, the call
\* reverts, the node cannot be reached.
ChainErrors == {"INSUFFICIENT_FUNDS", "CALL_EXCEPTION", "NETWORK_ERROR"}

\* The stablecoin contract executes transferFrom only within balance and
\* allowance.
CanTransferFrom(owner, value) ==
    usdtBalance[owner] >= value /\ usdtAllowance[owner] >= value

\* Lines 142-147: transferFrom and the wait for its confirmation.
TransferConfirmed(r) ==
    LET owner == req[r].buyerAddress
        value == req[r].usdtAmountWithDecimals
    IN  /\ CanTransferFrom(owner, value)
        /\ usdtBalance' = [usdtBalance EXCEPT
                              ![owner] = @ - value,
                              ![ADMIN_ADDRESS] = @ + value]
        /\ usdtAllowance' = [usdtAllowance EXCEPT ![owner] = @ - value]
        /\ txCount' = txCount + 1
        /\ req' = [req EXCEPT ![r].pc = "mint",
                              ![r].transferred = TRUE,
                              ![r].transferFromCalls = @ + 1]
        /\ UNCHANGED mints

\* TransferThrows with the error swallowed: the handler goes on to mint.
TransferThrows_Continues(r, code) ==
    /\ req' = [req EXCEPT ![r].pc = "mint",
                          ![r].transferFromCalls = @ + 1]
    /\ UNCHANGED chain

TransferThrows(r, code) ==
    /\ req' = [req EXCEPT ![r].pc = "catch",
                          ![r].error = code,
                          ![r].transferFromCalls = @ + 1]
    /\ UNCHANGED chain

TransferFrom(r) ==
    /\ req[r].pc = "transferFrom"
    /\ \/ TransferConfirmed(r)
       \/ \E code \in ChainErrors : TransferThrows(r, code)
    /\ UNCHANGED <<ledger, report>>

\* Lines 150-154: mint and the wait for its confirmation.
MintConfirmed(r) ==
    LET hash == TxHash(txCount + 1)
    IN  /\ mints' = mints \cup {[to |-> req[r].buyerAddress,
                                 amount |-> req[r].tokenAmountWithDecimals,
                                 hash |-> hash]}
        /\ txCount' = txCount + 1
        /\ req' = [req EXCEPT ![r].pc = "markSuccess",
                              ![r].mintTx = hash,
                              ![r].mintArg = req[r].tokenAmountWithDecimals,
                              ![r].mintCalls = @ + 1]
        /\ UNCHANGED <<usdtBalance, usdtAllowance>>

\* MintThrows with one retry: the first throw of mint is followed by a
\* second invocation.
MintThrows_Retry(r, code) ==
    /\ req' = [req EXCEPT ![r].pc = IF req[r].mintCalls = 0 THEN "mint" ELSE "catch",
                          ![r].error = code,
                          ![r].mintArg = req[r].tokenAmountWithDecimals,
                          ![r].mintCalls = @ + 1]
    /\ UNCHANGED chain

MintThrows(r, code) ==
    /\ req' = [req EXCEPT ![r].pc = "catch",
                          ![r].error = code,
                          ![r].mintArg = req[r].tokenAmountWithDecimals,
                          ![r].mintCalls = @ + 1]
    /\ UNCHANGED chain

Mint(r) ==
    /\ req[r].pc = "mint"
    /\ \/ MintConfirmed(r)
       \/ \E code \in ChainErrors : MintThrows(r, code)
    /\ UNCHANGED <<ledger, report>>

\* pendingTx.save() of an existing document: the update writes the fields
\* the document has modified since it was last stored.
StoreUpdate(doc) ==
    [ledger EXCEPT ![doc.idx].status = doc.status, ![doc.idx].txHash = doc.txHash]

\* MarkSuccess with the success response sent before the record is saved.
MarkSuccess_RespondFirst(r) ==
    /\ req[r].pc = "markSuccess"
    /\ req' = [req EXCEPT ![r].pc = "done",
                          ![r].responses = @ + 1,
                          ![r].res = [status |-> 200, error |-> "",
                                      transactionHash |-> req[r].mintTx]]
    /\ UNCHANGED <<chain, ledger, report>>

\* MarkSuccess with a response that throws after the save: the thrown error
\* reaches the inner catch although the record is already SUCCESS.
MarkSuccess_ResponseThrows(r) ==
    /\ req[r].pc = "markSuccess"
    /\ LET doc == [req[r].pendingTx EXCEPT !.status = "SUCCESS",
                                           !.txHash = req[r].mintTx]
       IN  /\ ledger' = StoreUpdate(doc)
           /\ req' = [req EXCEPT ![r].pc = "catch",
                                 ![r].pendingTx = doc,
                                 ![r].error = "RESPONSE_ERROR"]
    /\ UNCHANGED <<chain, report>>

\* Lines 157-166: the record is set to SUCCESS with the mint hash and
\* saved, then the success response is sent.  A throw of the save goes to
\* the inner catch, with the document still modified.
MarkSuccess(r) ==
    /\ req[r].pc = "markSuccess"
    /\ LET doc == [req[r].pendingTx EXCEPT !.status = "SUCCESS",
                                           !.txHash = req[r].mintTx]
       IN  \/ /\ ~UniqueViolation(doc.idx, doc.txHash)
              /\ ledger' = StoreUpdate(doc)
              /\ req' = [req EXCEPT
                           ![r].pc = "done",
                           ![r].pendingTx = doc,
                           ![r].responses = @ + 1,
                           ![r].res = [status |-> 200, error |-> "",
                                       transactionHash |-> req[r].mintTx]]
           \/ /\ ledger' = ledger
              /\ req' = [req EXCEPT ![r].pc = "catch",
                                    ![r].pendingTx = doc,
                                    ![r].saveErrors = @ \cup {"SUCCESS"},
                                    ![r].error = "STORE_ERROR"]
    /\ UNCHANGED <<chain, report>>

\* MarkFailed without the update of the record: the error is only rethrown.
MarkFailed_NoUpdate(r) ==
    /\ req[r].pc = "catch"
    /\ req' = [req EXCEPT ![r].pc = "done",
                          ![r].responses = @ + 1,
                          ![r].res = CatchResponse(req[r].error)]
    /\ UNCHANGED <<chain, ledger, report>>

\* Lines 167-192: the inner catch sets the record to FAILED, saves it and
\* rethrows; the outer catch answers by the error code.  When the save of
\* line 170 throws, its error is the one the outer catch sees.
MarkFailed(r) ==
    /\ req[r].pc = "catch"
    /\ LET doc == [req[r].pendingTx EXCEPT !.status = "FAILED"]
       IN  \/ /\ ~UniqueViolation(doc.idx, doc.txHash)
              /\ ledger' = StoreUpdate(doc)
              /\ req' = [req EXCEPT ![r].pc = "done",
                                    ![r].pendingTx = doc,
                                    ![r].responses = @ + 1,
                                    ![r].res = CatchResponse(req[r].error)]
           \/ /\ ledger' = ledger
              /\ req' = [req EXCEPT ![r].pc = "done",
                                    ![r].pendingTx = doc,
                                    ![r].error = "STORE_ERROR",
                                    ![r].saveErrors = @ \cup {"FAILED"},
                                    ![r].responses = @ + 1,
                                    ![r].res = CatchResponse("STORE_ERROR")]
    /\ UNCHANGED <<chain, report>>

BuyTokens(r) ==
    \/ \E usdtAmount \in UsdtAmounts, buyerAddress \in BuyerAddresses :
          Receive(r, usdtAmount, buyerAddress)
    \/ CheckBalance(r)
    \/ CheckAllowance(r)
    \/ InsertPending(r)
    \/ TransferFrom(r)
    \/ Mint(r)
    \/ MarkSuccess(r)
    \/ MarkFailed(r)

\* ------------------------------------------------------------ reporting
\* A query parameter that the request does not carry.
Undefined == -1

Min(a, b) == IF a < b THEN a ELSE b

RECURSIVE SumOver(_, _)
SumOver(S, f) ==
    IF S = {} THEN 0
    ELSE LET x == CHOOSE y \in S : TRUE IN f[x] + SumOver(S \ {x}, f)

\* The sum of two decimal numbers.
DecAdd(a, b) ==
    LET e0 == Min(a.e, b.e)
    IN  IF a.m = 0 THEN b ELSE IF b.m = 0 THEN a
        ELSE Dec(a.m * Pow10(a.e - e0) + b.m * Pow10(b.e - e0), e0)

RECURSIVE DecSumOver(_, _)
DecSumOver(S, f) ==
    IF S = {} THEN Dec(0, 0)
    ELSE LET x == CHOOSE y \in S : TRUE IN DecAdd(f[x], DecSumOver(S \ {x}, f))

\* .sort({key: -1}): every order of S by descending key; the store leaves
\* the order of equal keys open.
RECURSIVE SortDescending(_, _)
SortDescending(S, key) ==
    IF S = {} THEN {<<>>}
    ELSE UNION {{<<x>> \o rest : rest \in SortDescending(S \ {x}, key)} :
                  x \in {y \in S : \A z \in S : key[y] >= key[z]}}

\* $sort: {_id: 1} on distinct keys.
RECURSIVE SortAscending(_)
SortAscending(S) ==
    IF S = {} THEN <<>>
    ELSE LET x == CHOOSE y \in S : \A z \in S : y <= z
         IN  <<x>> \o SortAscending(S \ {x})

\* .skip(n) called with page * limit instead of (page - 1) * limit.
Skip_NextPage(seq, n) ==
    SubSeq(seq, n + 1 + (IF Len(seq) > n THEN 1 ELSE 0), Len(seq))

\* .skip(n)
Skip(seq, n) == SubSeq(seq, n + 1, Len(seq))

\* .limit(n): the first n; a limit of 0 is no limit.
Limit(seq, n) == IF n = 0 THEN seq ELSE SubSeq(seq, 1, Min(n, Len(seq)))

\* Math.ceil(total / limit); the quotient by 0 is Infinity or NaN, which
\* JSON sends as null.
Ceil(total, limit) ==
    IF limit = 0 THEN [finite |-> FALSE, n |-> 0]
    ELSE [finite |-> TRUE, n |-> (total + limit - 1) \div limit]

\* query.timestamp = {$gte: startDate, $lte: endDate}, each bound if given.
InRange(timestamp, startDate, endDate) ==
    /\ startDate = Undefined \/ timestamp >= startDate
    /\ endDate = Undefined \/ timestamp <= endDate

\* Lines 239-246: the filter of the history query.
Matches(tx, address, type, status, startDate, endDate) ==
    /\ tx.buyerAddress = address
    /\ type = "" \/ tx.type = type
    /\ status = "" \/ tx.status = status
    /\ InRange(tx.timestamp, startDate, endDate)

Timestamps == [i \in 1..Len(ledger) |-> ledger[i].timestamp]

Documents(order) == [j \in 1..Len(order) |-> ledger[order[j]]]

\* GET /api/transaction-history
GetHistory(address, page, limit, type, status, startDate, endDate) ==
    /\ LET pageValue == IF page = Undefined THEN DefaultPage ELSE page
           limitValue == IF limit = Undefined THEN DefaultLimit ELSE limit
           found == {i \in 1..Len(ledger) :
                       Matches(ledger[i], address, type, status, startDate, endDate)}
           skip == (pageValue - 1) * limitValue
           request == [address |-> address, page |-> pageValue, limit |-> limitValue,
                       type |-> type, status |-> status,
                       startDate |-> startDate, endDate |-> endDate]
       IN  IF address = ""
           THEN report' = [op |-> "history", status |-> 400, request |-> request]
           ELSE \E order \in SortDescending(found, Timestamps) :
                  report' = [op |-> "history", status |-> 200, request |-> request,
                             transactions |-> Documents(Limit(Skip(order, skip), limitValue)),
                             total |-> Cardinality(found),
                             page |-> pageValue,
                             limit |-> limitValue,
                             pages |-> Ceil(Cardinality(found), limitValue)]
    /\ UNCHANGED <<chain, ledger, req>>

\* Model time: the ticks of one calendar day.
TicksPerDay == 2

\* $dateToString %Y-%m-%d: the calendar day of a timestamp.
Day(timestamp) == timestamp \div TicksPerDay

\* The $match stage without the status condition.
StatsMatch_AnyStatus(tx, startDate, endDate) ==
    /\ (startDate = Undefined \/ tx.timestamp >= startDate)
    /\ (endDate = Undefined \/ tx.timestamp <= endDate)
    /\ tx.type = "BUY"

\* The $match stage of the three pipelines of /api/stats.
StatsMatch(tx, startDate, endDate) ==
    /\ InRange(tx.timestamp, startDate, endDate)
    /\ tx.type = "BUY"
    /\ tx.status = "SUCCESS"

UsdtOf == [i \in 1..Len(ledger) |-> ToMicro(ledger[i].usdtAmount)]
AmountOf == [i \in 1..Len(ledger) |-> [m |-> ledger[i].amount.m, e |-> ledger[i].amount.e]]

\* A $group stage: the sums over the documents of one group.
Group(id, S) ==
    [_id |-> id,
     totalTokens |-> DecSumOver(S, AmountOf),
     totalUsdt |-> SumOver(S, UsdtOf),
     transactionCount |-> Cardinality(S)]

\* Total statistics; without a matching document the handler answers zeros.
\* averagePurchaseAmount is the quotient of its two components.
TotalStats(S) ==
    IF S = {}
    THEN [totalTokensSold |-> Dec(0, 0), totalUsdtRaised |-> 0, transactionCount |-> 0,
          averagePurchaseAmount |-> <<0, 1>>]
    ELSE [totalTokensSold |-> DecSumOver(S, AmountOf),
          totalUsdtRaised |-> SumOver(S, UsdtOf),
          transactionCount |-> Cardinality(S),
          averagePurchaseAmount |-> <<SumOver(S, UsdtOf), Cardinality(S)>>]

DailyStats(S) ==
    LET days == SortAscending({Day(ledger[i].timestamp) : i \in S})
    IN  [j \in 1..Len(days) |->
           Group(days[j], {i \in S : Day(ledger[i].timestamp) = days[j]})]

\* Top buyers: $group by buyer, $sort by totalUsdt descending, $limit 10.
TopBuyers(S) ==
    LET buyers == {ledger[i].buyerAddress : i \in S}
        total == [b \in buyers |-> SumOver({i \in S : ledger[i].buyerAddress = b}, UsdtOf)]
    IN  {[j \in 1..Len(top) |->
            Group(top[j], {i \in S : ledger[i].buyerAddress = top[j]})] :
         top \in {Limit(order, TopBuyersLimit) : order \in SortDescending(buyers, total)}}

\* GET /api/stats
GetStats(startDate, endDate) ==
    /\ LET matched == {i \in 1..Len(ledger) : StatsMatch(ledger[i], startDate, endDate)}
       IN  \E topBuyers \in TopBuyers(matched) :
              report' = [op |-> "stats", status |-> 200,
                         request |-> [startDate |-> startDate, endDate |-> endDate],
                         totalStats |-> TotalStats(matched),
                         dailyStats |-> DailyStats(matched),
                         topBuyers |-> topBuyers]
    /\ UNCHANGED <<chain, ledger, req>>

CsvHeader == <<"Date", "Type", "Amount", "Status", "Transaction Hash", "Token Price",
               "USDT Amount">>

CsvRow(tx) == <<tx.timestamp, tx.type, tx.amount, tx.status, tx.txHash, tx.tokenPrice,
                tx.usdtAmount>>

\* ExportHistory with a sort in place: the collection itself is reordered.
ExportHistory_SortInPlace(address, format) ==
    /\ address # ""
    /\ \E order \in SortDescending({i \in 1..Len(ledger) : ledger[i].buyerAddress = address},
                                   Timestamps) :
          /\ ledger' = Documents(order) \o
                          SelectSeq(ledger, LAMBDA tx : tx.buyerAddress # address)
          /\ report' = [op |-> "export", status |-> 200,
                        request |-> [address |-> address, format |-> format],
                        transactions |-> Documents(order)]
    /\ UNCHANGED <<chain, req>>

\* GET /api/export-transactions
ExportHistory(address, format) ==
    /\ LET found == {i \in 1..Len(ledger) : ledger[i].buyerAddress = address}
           request == [address |-> address, format |-> format]
       IN  IF address = ""
           THEN report' = [op |-> "export", status |-> 400, request |-> request]
           ELSE \E order \in SortDescending(found, Timestamps) :
                  IF format = "csv"
                  THEN report' = [op |-> "export", status |-> 200, request |-> request,
                                  csv |-> <<CsvHeader>> \o
                                          [j \in 1..Len(order) |-> CsvRow(ledger[order[j]])]]
                  ELSE report' = [op |-> "export", status |-> 200, request |-> request,
                                  transactions |-> Documents(order)]
    /\ UNCHANGED <<chain, ledger, req>>

\* The reporting requests that run beside purchases: the history and the
\* export of a buyer and the statistics, without optional parameters.
Reporting ==
    \/ \E address \in Buyers :
          GetHistory(address, Undefined, Undefined, "", "", Undefined, Undefined)
    \/ GetStats(Undefined, Undefined)
    \/ \E address \in Buyers : ExportHistory(address, "csv")

\* The purchase requests alone.
Next == \E r \in Reqs : BuyTokens(r)

Spec == Init /\ [][Next]_vars

\* Purchases and reporting requests side by side.
NextServer ==
    \/ \E r \in Reqs : BuyTokens(r)
    \/ Reporting

\* Every call the handler awaits returns: a request that has been received
\* goes on to its next step.
Proceed(r) ==
    \/ CheckBalance(r)
    \/ CheckAllowance(r)
    \/ InsertPending(r)
    \/ TransferFrom(r)
    \/ Mint(r)
    \/ MarkSuccess(r)
    \/ MarkFailed(r)

SpecLive == Init /\ [][Next]_vars /\ \A r \in Reqs : WF_vars(Proceed(r))

SpecServer == Init /\ [][NextServer]_vars


\* ----------------------------------------------- reporting on a long ledger
\* The reporting endpoints are functions of the ledger and of the query.
\* They are run here on ledgers that earlier purchases have left behind:
\* the first n purchases of a history in which every purchase succeeded,
\* but possibly one whose SUCCESS update the store refused (FAILED, with its
\* mint hash) and a last one that is still PENDING or ended FAILED.
MaxSeed == 13
MaxPage == 3
MaxLimit == 3

SeedAddress(i) == "0xS" \o ToString(i)

\* 0.5, 0.5, 1, 1.5, 2, ... stablecoin
SeedUsdtAmount(i) == Num(5 * (IF i = 1 THEN 1 ELSE i - 1), -1)

\* The first two purchases fall into the same millisecond.
SeedTimestamp(i) == IF i = 1 THEN 2 ELSE i

SeedTransaction(i, n, buyers, refused, last) ==
    [_id |-> i,
     buyerAddress |-> SeedAddress(((i - 1) % buyers) + 1),
     type |-> "BUY",
     amount |-> NumberToString(calculateTokenAmount(SeedUsdtAmount(i))),
     status |-> IF i = n THEN last ELSE IF i = refused THEN "FAILED" ELSE "SUCCESS",
     txHash |-> IF i = n /\ last # "SUCCESS" THEN Sentinel ELSE TxHash(2 * i),
     timestamp |-> SeedTimestamp(i),
     tokenPrice |-> TOKEN_PRICE_USDT,
     usdtAmount |-> InputToString(SeedUsdtAmount(i))]

SeedLedgers ==
    {[i \in 1..n |-> SeedTransaction(i, n, buyers, refused, last)] :
        n \in 0..MaxSeed,
        buyers \in {1, 2, TopBuyersLimit + 1},
        refused \in {0, 1},
        last \in {"SUCCESS", "PENDING", "FAILED"}}

InitReport ==
    /\ usdtBalance = InitialBalance
    /\ usdtAllowance = [b \in Buyers |-> 0]
    /\ mints = {}
    /\ txCount = 0
    /\ ledger \in SeedLedgers
    /\ req = [r \in Reqs |-> IdleReq]
    /\ report = NoReport

\* One reporting request on the ledger, with every choice of its query.
ReportOnce ==
    \/ \E address \in {SeedAddress(1), SeedAddress(2), ""},
          page \in {Undefined} \cup 1..MaxPage,
          limit \in {Undefined} \cup 0..MaxLimit,
          type \in {"", "BUY", "APPROVE"},
          status \in {"", "SUCCESS", "FAILED"},
          startDate \in {Undefined, 3},
          endDate \in {Undefined, 8} :
          GetHistory(address, page, limit, type, status, startDate, endDate)
    \/ \E startDate \in {Undefined, 3}, endDate \in {Undefined, 8} :
          GetStats(startDate, endDate)
    \/ \E address \in {SeedAddress(1), SeedAddress(2), ""}, format \in {"csv", "json"} :
          ExportHistory(address, format)

NextReport == report = NoReport /\ ReportOnce

SpecReport == InitReport /\ [][NextReport]_vars


\* What purchases leave in the ledger, whatever their outcome: documents
\* numbered in insertion order with non-decreasing timestamps and distinct
\* txHash; only the last one can hold the sentinel, and one that is PENDING
\* does.  The ledgers of SeedLedgers are of this shape.
LedgerShape ==
    \A i \in 1..Len(ledger) :
        /\ ledger[i]._id = i
        /\ ledger[i].type = "BUY"
        /\ ledger[i].tokenPrice = TOKEN_PRICE_USDT
        /\ ledger[i].status \in {"PENDING", "SUCCESS", "FAILED"}
        /\ ledger[i].status = "PENDING" => ledger[i].txHash = Sentinel
        /\ ledger[i].status = "SUCCESS" => ledger[i].txHash # Sentinel
        /\ ledger[i].txHash = Sentinel => i = Len(ledger)
        /\ \A j \in 1..Len(ledger) :
              /\ j < i => ledger[j].timestamp <= ledger[i].timestamp
              /\ j # i => ledger[j].txHash # ledger[i].txHash

\* ================================================================= claims
\* What the claims say of one request.
Done(r) == req[r].pc = "done"

Present(r) == req[r].usdtAmount.kind # "absent" /\ req[r].buyerAddress # ""

\* The requested stablecoin amount in units of 10^-6.
Requested(r) == req[r].usdtAmount.m * Pow10(req[r].usdtAmount.e + USDT_DECIMALS)

\* The handler found balance and allowance sufficient.
ChecksPassed(r) ==
    \/ req[r].pc \in {"insert", "transferFrom", "mint", "markSuccess", "catch"}
    \/ Done(r) /\ (req[r].pendingTx.idx > 0 \/ req[r].error \in {"E11000", "STORE_ERROR"})

Inserted(r) == req[r].pendingTx.idx > 0

RecordOf(r) == ledger[req[r].pendingTx.idx]

TransferFailed(r) == req[r].transferFromCalls > 0 /\ ~req[r].transferred

MintFailed(r) == req[r].mintCalls > 0 /\ req[r].mintTx = ""

ChainWriteFailed(r) == TransferFailed(r) \/ MintFailed(r)

StoreFailed(r) == req[r].error = "STORE_ERROR"

NoChainWrite(r) == req[r].transferFromCalls = 0 /\ req[r].mintCalls = 0

\* C1 (as claimed): every request with both inputs present that the handler
\* found to have sufficient balance and allowance, and of which no chain
\* write failed, ends with its ledger record in SUCCESS carrying the hash of
\* its mint transaction and with a success response, whatever records
\* earlier or concurrent purchases left in the ledger.  Requests that met a
\* store outage are left out, so that a violation is one of the purchase
\* flow itself.
C1_SuccessInEveryLedgerState ==
    \A r \in Reqs :
        (Done(r) /\ Present(r) /\ ChecksPassed(r) /\ ~ChainWriteFailed(r) /\ ~StoreFailed(r))
        => /\ req[r].res.status = 200
           /\ Inserted(r)
           /\ RecordOf(r).status = "SUCCESS"
           /\ RecordOf(r).txHash = req[r].mintTx
           /\ req[r].res.transactionHash = req[r].mintTx

\* C2 (as claimed): every request for a numeric amount whose buyer held less
\* than that amount when it arrived (balances only fall afterwards) invokes
\* neither transferFrom nor mint, is answered 400 with the
\* insufficient-balance error and creates no record.
C2_BalanceShortfallIs400 ==
    \A r \in Reqs :
        (Done(r) /\ Present(r) /\ req[r].usdtAmount.kind = "num"
            /\ req[r].balanceAtArrival < Requested(r))
        => /\ NoChainWrite(r)
           /\ req[r].res.status = 400
           /\ req[r].res.error = "Insufficient USDT balance"
           /\ ~Inserted(r)

\* C3 (as claimed): every request for a numeric amount whose buyer holds at
\* least that amount (balances only fall, so it did at the check) but had
\* approved less when the request arrived (allowances only fall) invokes
\* neither transferFrom nor mint and is answered 400 with the
\* insufficient-allowance error.
C3_AllowanceShortfallIs400 ==
    \A r \in Reqs :
        (Done(r) /\ Present(r) /\ req[r].usdtAmount.kind = "num"
            /\ usdtBalance[req[r].buyerAddress] >= Requested(r)
            /\ req[r].allowanceAtArrival < Requested(r))
        => /\ NoChainWrite(r)
           /\ req[r].res.status = 400
           /\ req[r].res.error = "Insufficient USDT allowance"

\* C4 (as claimed): every request that inserted its PENDING record and whose
\* transferFrom failed, or whose transferFrom succeeded and whose mint
\* failed, ends with the record FAILED, its txHash still the sentinel, and
\* an error response.
C4_ChainFailureEndsFailed ==
    \A r \in Reqs :
        (Done(r) /\ Inserted(r) /\ ChainWriteFailed(r))
        => /\ RecordOf(r).status = "FAILED"
           /\ RecordOf(r).txHash = Sentinel
           /\ req[r].res.status \in {400, 500}

\* C4 (amended): such a request always gets an error response, its record
\* keeps the sentinel txHash, and the record ends FAILED when the store
\* accepts the update of line 170; when that save throws the record stays
\* PENDING.
C4_ChainFailureEndsFailedIfStored ==
    \A r \in Reqs :
        (Done(r) /\ Inserted(r) /\ ChainWriteFailed(r))
        => /\ req[r].res.status \in {400, 500}
           /\ RecordOf(r).txHash = Sentinel
           /\ ~StoreFailed(r) => RecordOf(r).status = "FAILED"
           /\ StoreFailed(r) => RecordOf(r).status = "PENDING"

\* C4 witness: a payment was confirmed, the mint failed, and the record was
\* set to FAILED.
C4_Witness ==
    \E r \in Reqs :
        /\ Done(r) /\ req[r].transferred /\ MintFailed(r) /\ ~StoreFailed(r)
        /\ RecordOf(r).status = "FAILED"
        /\ req[r].res.status = 400


\* C5: a step changes the status of a record only from PENDING to SUCCESS or
\* from PENDING to FAILED (so a record in SUCCESS or FAILED keeps its status
\* and a status changes at most once), and every record stays in the ledger,
\* at its place and with its identity.
C5_StatusChangesOnce ==
    [][/\ Len(ledger') >= Len(ledger)
       /\ \A i \in 1..Len(ledger) :
            /\ ledger'[i]._id = ledger[i]._id
            /\ ledger'[i].status # ledger[i].status
                 => /\ ledger[i].status = "PENDING"
                    /\ ledger'[i].status \in {"SUCCESS", "FAILED"}]_vars

\* C5 witness: one record has gone to SUCCESS and another to FAILED.
C5_Witness ==
    \E i, j \in 1..Len(ledger) :
        ledger[i].status = "SUCCESS" /\ ledger[j].status = "FAILED"

\* C6 (as claimed): the unique index never rejects the insert of a PENDING
\* record: every request that passed the balance and allowance checks, and
\* whose insert met no store outage, has inserted its own record with the
\* sentinel txHash, also while another record holds the sentinel.
C6_SentinelInsertNeverRejected ==
    \A r \in Reqs :
        (ChecksPassed(r) /\ req[r].pc # "insert" /\ ~Inserted(r))
        => req[r].error = "STORE_ERROR"

\* The quantity the claim expects at mint, in the token's smallest unit:
\* usdtAmount / tokenPrice * 10^18.
ExpectedMint(r) ==
    Dec(req[r].usdtAmount.m \div TOKEN_PRICE_USDT, req[r].usdtAmount.e + 18)

\* C7 (as claimed): the quantity passed to mint equals
\* usdtAmount / tokenPrice * 10^18 smallest units, and the amount stored in
\* the ledger record is that same quantity.
C7_MintedQuantityExact ==
    \A r \in Reqs :
        req[r].mintCalls > 0
        => /\ req[r].mintArg = ExpectedMint(r)
           /\ [m |-> RecordOf(r).amount.m, e |-> RecordOf(r).amount.e] = req[r].mintArg


\* C8: a step of getHistory, getStats or exportHistory (the steps that
\* answer a report) leaves the ledger as it was, record for record and
\* field for field, also while purchases are in flight.
C8_ReportingLeavesLedger ==
    [][report' # report => ledger' = ledger]_vars

\* C8 witness: a report has been answered from a non-empty ledger while a
\* purchase was between its insert and its final update.
C8_Witness ==
    /\ report.op \in {"history", "stats", "export"}
    /\ report.status = 200
    /\ \E r \in Reqs : req[r].pc \in {"transferFrom", "mint", "markSuccess", "catch"}

\* The records a history request asks for: those of the buyer that pass the
\* filters given.
Asked(q) ==
    {i \in 1..Len(ledger) :
        /\ ledger[i].buyerAddress = q.address
        /\ q.type # "" => ledger[i].type = q.type
        /\ q.status # "" => ledger[i].status = q.status
        /\ q.startDate # Undefined => ledger[i].timestamp >= q.startDate
        /\ q.endDate # Undefined => ledger[i].timestamp <= q.endDate}

\* The page holds the records at positions (p-1)*s+1 .. p*s of the asked
\* records in an order newest first: it is as long as that range, holds
\* asked records without repetition, and the record at place j has at most
\* (p-1)*s+j-1 asked records newer than itself and at least (p-1)*s+j no
\* older than itself.
IsPage(page, q) ==
    LET first == (q.page - 1) * q.limit
        asked == Asked(q)
        rest == Cardinality(asked) - first
        Newer(t) == Cardinality({i \in asked : ledger[i].timestamp > t})
        NotOlder(t) == Cardinality({i \in asked : ledger[i].timestamp >= t})
    IN  /\ Len(page) = (IF rest < 0 THEN 0 ELSE IF rest < q.limit THEN rest ELSE q.limit)
        /\ \A j \in 1..Len(page) :
             /\ page[j]._id \in asked
             /\ page[j] = ledger[page[j]._id]
             /\ Newer(page[j].timestamp) <= first + j - 1
             /\ NotOlder(page[j].timestamp) >= first + j
        /\ \A j, k \in 1..Len(page) : j # k => page[j]._id # page[k]._id

\* pages = ceil(total / s)
IsCeil(pages, total, s) ==
    /\ pages.finite
    /\ pages.n * s >= total
    /\ pages.n > 0 => (pages.n - 1) * s < total

HistoryAsClaimed ==
    /\ Len(report.transactions) <= report.request.limit
    /\ IsPage(report.transactions, report.request)
    /\ report.total = Cardinality(Asked(report.request))
    /\ IsCeil(report.pages, report.total, report.request.limit)

\* C9 (as claimed): for every buyer, filter, page p >= 1 and page size s,
\* getHistory returns at most s records, those at positions (p-1)*s+1 .. p*s
\* of the matching records newest first, total is the number of matching
\* records and pages = ceil(total / s).
C9_PageOfHistory ==
    (report.op = "history" /\ report.status = 200 /\ report.request.page >= 1)
    => HistoryAsClaimed

\* C9 (amended): the same for every page size s >= 1.
C9_PageOfHistoryPositiveSize ==
    (report.op = "history" /\ report.status = 200 /\ report.request.page >= 1
        /\ report.request.limit >= 1)
    => HistoryAsClaimed

\* C9 witness: the second page of size 2 of a filtered history of three
\* pages has been returned.
C9_Witness ==
    /\ report.op = "history" /\ report.status = 200
    /\ report.request.page = 2 /\ report.request.limit = 2
    /\ report.request.status = "SUCCESS"
    /\ Len(report.transactions) = 2
    /\ report.pages.n = 3
    /\ \E i \in 1..Len(ledger) :
          ledger[i].buyerAddress = report.request.address /\ ledger[i].status = "FAILED"

\* The successful purchases a statistics request covers.
Counted(q) ==
    {i \in 1..Len(ledger) :
        /\ ledger[i].type = "BUY"
        /\ ledger[i].status = "SUCCESS"
        /\ q.startDate # Undefined => ledger[i].timestamp >= q.startDate
        /\ q.endDate # Undefined => ledger[i].timestamp <= q.endDate}

\* The stablecoin of record i, in units of 10^-6, read from its usdtAmount.
Paid(i) == ledger[i].usdtAmount.m * Pow10(ledger[i].usdtAmount.e + 6)

RECURSIVE SpentUpTo(_, _)
SpentUpTo(n, S) ==
    IF n = 0 THEN 0
    ELSE SpentUpTo(n - 1, S) + (IF n \in S THEN Paid(n) ELSE 0)

Spent(b, S) == SpentUpTo(Len(ledger), {i \in S : ledger[i].buyerAddress = b})

C11_FailureClassStatus ==
    \A r \in Reqs :
        (Done(r) /\ req[r].res.status # 200)
        => /\ (~Present(r) \/ req[r].usdtAmount.kind = "text")
                => req[r].res.status = 400
           /\ req[r].res.error \in {"Insufficient USDT balance",
                                     "Insufficient USDT allowance"}
                => req[r].res.status = 400
           /\ req[r].error \in {"INSUFFICIENT_FUNDS", "CALL_EXCEPTION"}
                => req[r].res.status = 400
           /\ req[r].error \in {"STORE_ERROR", "E11000", "NETWORK_ERROR"}
                => req[r].res.status = 500


\* C12: a step invokes mint for a request only when that request's
\* transferFrom has been invoked once and confirmed and the handler has
\* gone on from it; no step invokes both chain writes of one request; and
\* every request that holds a mint transaction has had its payment
\* confirmed.
C12_MintAfterConfirmedTransfer ==
    [][\A r \in Reqs :
         /\ req'[r].mintCalls # req[r].mintCalls
              => /\ req[r].pc = "mint"
                 /\ req[r].transferred
                 /\ req[r].transferFromCalls = 1
                 /\ req'[r].transferFromCalls = 1
         /\ req'[r].transferFromCalls # req[r].transferFromCalls
              => /\ req[r].pc = "transferFrom"
                 /\ req[r].mintCalls = 0
                 /\ req'[r].mintCalls = 0
         /\ req'[r].mintTx # "" => req'[r].transferred]_vars

\* C12 witness: one request was paid and minted, another was invoked
\* transferFrom, which failed, and no mint.
C12_Witness ==
    \E r, q \in Reqs :
        /\ req[r].transferred /\ req[r].mintCalls = 1 /\ req[r].mintTx # ""
        /\ Done(q) /\ TransferFailed(q) /\ req[q].mintCalls = 0


\* The save of the FAILED update (line 170) threw.
FailedUpdateThrew(r) == "FAILED" \in req[r].saveErrors

\* C13 (as claimed): every request that inserted a record and has sent its
\* response has left the record in SUCCESS or FAILED, whatever failed after
\* the insert, store errors on an update included.
C13_TerminalBeforeResponse ==
    \A r \in Reqs :
        (Done(r) /\ Inserted(r)) => RecordOf(r).status \in {"SUCCESS", "FAILED"}

\* C13 (amended): when the response is sent the record is SUCCESS or FAILED
\* unless the save of the FAILED update itself threw; then the record is
\* still PENDING and the response is 500.
C13_TerminalBeforeResponseIfStored ==
    \A r \in Reqs :
        (Done(r) /\ Inserted(r))
        => /\ ~FailedUpdateThrew(r) => RecordOf(r).status \in {"SUCCESS", "FAILED"}
           /\ FailedUpdateThrew(r) => /\ RecordOf(r).status = "PENDING"
                                      /\ req[r].res.status = 500

\* C13 witness: two responses sent with the record terminal: one record
\* SUCCESS with the success response, one FAILED after the save of the
\* SUCCESS update threw and the save of the FAILED update was stored.
C13_Witness ==
    \E r, q \in Reqs :
        /\ Done(r) /\ Inserted(r) /\ req[r].res.status = 200
        /\ RecordOf(r).status = "SUCCESS"
        /\ Done(q) /\ Inserted(q) /\ req[q].saveErrors = {"SUCCESS"}
        /\ RecordOf(q).status = "FAILED"


\* The payment of request r was confirmed, its mint failed, its record is
\* FAILED and its response sent.
Stranded(r) ==
    /\ Done(r) /\ Inserted(r)
    /\ req[r].transferred /\ MintFailed(r)
    /\ RecordOf(r).status = "FAILED"

\* C14: from a state where the payment of a request was confirmed, its mint
\* failed and its record is FAILED, no step gives stablecoin back to the
\* buyer or takes it from the admin, none mints for that request (every
\* new mint transaction is the one of another request), and none changes
\* the record: the request stays as it is.
C14_NoCompensation ==
    [][\A r \in Reqs :
         Stranded(r)
         => /\ usdtBalance'[req[r].buyerAddress] <= usdtBalance[req[r].buyerAddress]
            /\ usdtBalance'[ADMIN_ADDRESS] >= usdtBalance[ADMIN_ADDRESS]
            /\ req'[r] = req[r]
            /\ \A m \in mints' \ mints :
                  \E q \in Reqs \ {r} : req'[q].mintTx = m.hash
            /\ Len(ledger') >= Len(ledger)
            /\ ledger'[req[r].pendingTx.idx] = RecordOf(r)]_vars

\* C14 witness: such a state, with the admin holding the stablecoin of the
\* request, no token minted, and a later request in progress.
C14_Witness ==
    \E r, q \in Reqs :
        /\ Stranded(r)
        /\ usdtBalance[ADMIN_ADDRESS] >= req[r].usdtAmountWithDecimals
        /\ mints = {}
        /\ q > r /\ req[q].pc \notin {"idle", "done"}


\* C15: no step brings the transferFrom invocations or the mint invocations
\* of a request above one, and once a chain write of a request has thrown,
\* or the request has reached a catch or sent its response, no step invokes
\* a chain write for it.
C15_ChainWritesAtMostOnce ==
    [][\A r \in Reqs :
         /\ req'[r].transferFromCalls <= 1
         /\ req'[r].mintCalls <= 1
         /\ (ChainWriteFailed(r) \/ req[r].pc \in {"catch", "done"})
              => /\ req'[r].transferFromCalls = req[r].transferFromCalls
                 /\ req'[r].mintCalls = req[r].mintCalls
                 /\ req'[r].transferred = req[r].transferred
                 /\ req'[r].mintTx = req[r].mintTx]_vars

\* C15 witness: a request whose mint threw has been through the catch and
\* has sent its response, with one invocation of each chain write.
C15_Witness ==
    \E r \in Reqs :
        /\ Done(r) /\ MintFailed(r)
        /\ req[r].transferFromCalls = 1 /\ req[r].mintCalls = 1
        /\ req[r].saveErrors = {"FAILED"}


\* C16: the step that receives a request lacking usdtAmount or buyerAddress
\* answers it 400 "Missing required parameters" at once and leaves the
\* chain and the ledger as they are, and such a request has, then and ever
\* after, read nothing from the chain, invoked no chain write and inserted
\* no record.
C16_MissingInputRejectedFirst ==
    [][\A r \in Reqs :
         (req'[r].pc # "idle"
            /\ (req'[r].usdtAmount.kind = "absent" \/ req'[r].buyerAddress = ""))
         => /\ req'[r].pc = "done"
            /\ req'[r].res.status = 400
            /\ req'[r].res.error = "Missing required parameters"
            /\ req'[r].responses = 1
            /\ req'[r].chainReads = 0
            /\ req'[r].transferFromCalls = 0
            /\ req'[r].mintCalls = 0
            /\ req'[r].pendingTx = NoDoc
            /\ req[r].pc = "idle" => (chain' = chain /\ ledger' = ledger)]_vars

\* C16 witness: a request without its amount and one without its address
\* have been rejected, the second while the ledger holds a record.
C16_Witness ==
    \E r, q \in Reqs :
        /\ Done(r) /\ req[r].usdtAmount.kind = "absent" /\ req[r].buyerAddress # ""
        /\ req[r].res.status = 400
        /\ Done(q) /\ req[q].usdtAmount.kind # "absent" /\ req[q].buyerAddress = ""
        /\ req[q].res.status = 400


\* C17 (as claimed): every record that is FAILED or PENDING holds the
\* sentinel txHash; every record that is SUCCESS holds the hash of a
\* confirmed mint transaction of the request that created it; and a record
\* is FAILED only if a chain write of the request that created it failed.
C17_TxHashByStatus ==
    \A i \in 1..Len(ledger) :
        /\ ledger[i].status \in {"FAILED", "PENDING"} => ledger[i].txHash = Sentinel
        /\ ledger[i].status = "SUCCESS"
             => \E r \in Reqs :
                   /\ req[r].pendingTx.idx = i
                   /\ req[r].mintTx = ledger[i].txHash
                   /\ \E m \in mints : m.hash = ledger[i].txHash
        /\ ledger[i].status = "FAILED"
             => \E r \in Reqs : req[r].pendingTx.idx = i /\ ChainWriteFailed(r)


\* C18: a request never has sent two responses, it is complete exactly when
\* it has sent one, and, every awaited call returning, a request that has
\* been received eventually has sent its response.
C18_ExactlyOneResponse ==
    /\ [](\A r \in Reqs : /\ req[r].responses <= 1
                           /\ Done(r) <=> req[r].responses = 1)
    /\ \A r \in Reqs : (req[r].pc # "idle") ~> (Done(r) /\ req[r].responses = 1)

\* C18 witness: both requests have sent their one response, one after a
\* confirmed purchase and one from the outer catch after a store error.
C18_Witness ==
    \E r, q \in Reqs :
        /\ Done(r) /\ req[r].responses = 1 /\ req[r].res.status = 200
        /\ Done(q) /\ req[q].responses = 1 /\ req[q].res.status = 500
        /\ req[q].saveErrors # {}

====
